---- MODULE Spec2Model ----
(***************************************************************************)
(* Model of the SWE-Agent trajectory analysis utilities (code.py).         *)
(*                                                                         *)
(* Texts are TLA+ strings, read character by character.  JSON values are   *)
(* tagged records.  A trajectory file is a sequence of physical lines.     *)
(***************************************************************************)
EXTENDS Integers, Sequences, FiniteSets, TLC

(***************************************************************************)
(* Call by value                                                           *)
(*                                                                         *)
(* Python evaluates an argument or an assigned expression once and binds   *)
(* the name to the value.  Bind(a, F) does the same: a is evaluated once,  *)
(* and F is applied to its value.  (\E x \in {a} : P(x) is the same        *)
(* binding for a Boolean P.)                                               *)
(***************************************************************************)

Bind(a, F(_)) == CHOOSE r \in {F(x) : x \in {a}} : TRUE

Bind2(a, b, F(_, _)) == CHOOSE r \in {F(x, y) : x \in {a}, y \in {b}} : TRUE

(***************************************************************************)
(* Characters and Python string primitives                                 *)
(***************************************************************************)

\* The i-th character of a text, as a one-character string.
Ch(s, i) == SubSeq(s, i, i)

Asc(s) == [i \in 1..Len(s) |-> SubSeq(s, i, i)]

\* Printable ASCII in code-point order, 32 (space) to 126 (tilde).
\* The backquote (96) cannot be written in a TLA+ string; its slot holds a
\* placeholder no text contains, so texts of the model are backquote-free.
AsciiTable ==
    Asc(" !\"#$%&'()*+,-./0123456789:;<=>?@ABCDEFGHIJKLMNOPQRSTUVWXYZ[\\]^_")
    \o <<"<backquote>">>
    \o Asc("abcdefghijklmnopqrstuvwxyz{|}~")

ControlCodes == [c \in {"\t", "\n", "\f", "\r"} |->
                    CASE c = "\t" -> 9 [] c = "\n" -> 10 [] c = "\f" -> 12 [] c = "\r" -> 13]

\* Code point of each character (ord).
CodeTable ==
    [c \in {AsciiTable[i] : i \in 1..Len(AsciiTable)} \cup DOMAIN ControlCodes |->
        IF c \in DOMAIN ControlCodes THEN ControlCodes[c]
        ELSE 31 + (CHOOSE i \in 1..Len(AsciiTable) : AsciiTable[i] = c)]

Ord(c) == CodeTable[c]

UpperChars == {AsciiTable[i] : i \in 34..59}
LowerChars == {AsciiTable[i] : i \in 66..91}
DigitChars == {AsciiTable[i] : i \in 17..26}
AlnumChars == UpperChars \cup LowerChars \cup DigitChars

IsAlnum(c) == c \in AlnumChars

\* str.isspace for the characters of the model.
SpaceChars == {" ", "\t", "\n", "\r", "\f"}
IsSpace(c) == c \in SpaceChars

\* Line boundaries recognised by str.splitlines.
LineBreakChars == {"\n", "\r", "\f"}

\* The regular expression class \w (ASCII part).
WordChars == AlnumChars \cup {"_"}
IsWordChar(c) == c \in WordChars

LowerTable == [c \in UpperChars |-> AsciiTable[CodeTable[c] + 32 - 31]]
LowerCh(c) == Bind(c, LAMBDA x : IF x \in UpperChars THEN LowerTable[x] ELSE x)

\* str.lower
RECURSIVE Lower(_)
Lower(s) ==
    Bind(s, LAMBDA t :
        IF t = "" THEN ""
        ELSE IF Len(t) = 1 THEN LowerCh(t)
        ELSE Bind(Len(t) \div 2, LAMBDA h :
                Lower(SubSeq(t, 1, h)) \o Lower(SubSeq(t, h + 1, Len(t)))))

\* text[i:i+len(sub)] == sub
MatchAt(s, sub, i) ==
    /\ i >= 1
    /\ i + Len(sub) - 1 <= Len(s)
    /\ SubSeq(s, i, i + Len(sub) - 1) = sub

\* sub in s
Contains(s, sub) == \E t \in {s} : \E i \in 1..(Len(t) + 1) : MatchAt(t, sub, i)

\* str.find, 1-based; 0 when absent.
FindFirst(s, sub) ==
    Bind(s, LAMBDA t :
        LET hits == {i \in 1..(Len(t) + 1) : MatchAt(t, sub, i)}
        IN  IF hits = {} THEN 0 ELSE CHOOSE i \in hits : \A j \in hits : i <= j)

\* Length of the longest run of characters of s from position i on that
\* are all in the set C / all outside the set C.
RunIn(s, i, C) ==
    Bind2(s, i, LAMBDA t, p :
        Bind({j \in p..Len(t) : Ch(t, j) \notin C}, LAMBDA stop :
            IF p > Len(t) THEN 0
            ELSE IF stop = {} THEN Len(t) - p + 1
            ELSE (CHOOSE j \in stop : \A k \in stop : j <= k) - p))

RunNotIn(s, i, C) ==
    Bind2(s, i, LAMBDA t, p :
        Bind({j \in p..Len(t) : Ch(t, j) \in C}, LAMBDA stop :
            IF p > Len(t) THEN 0
            ELSE IF stop = {} THEN Len(t) - p + 1
            ELSE (CHOOSE j \in stop : \A k \in stop : j <= k) - p))

\* Length of the longest suffix of s whose characters are all in the set C.
RunInBack(s, C) ==
    Bind(s, LAMBDA t :
        Bind({j \in 1..Len(t) : Ch(t, j) \notin C}, LAMBDA stop :
            IF stop = {} THEN Len(t)
            ELSE Len(t) - (CHOOSE j \in stop : \A k \in stop : k <= j)))

\* str.strip(chars)
LStripChars(s, chars) ==
    Bind(s, LAMBDA t : SubSeq(t, RunIn(t, 1, chars) + 1, Len(t)))

RStripChars(s, chars) ==
    Bind(s, LAMBDA t : SubSeq(t, 1, Len(t) - RunInBack(t, chars)))

StripChars(s, chars) == RStripChars(LStripChars(s, chars), chars)

\* str.strip() with no argument.
LStrip(s) == LStripChars(s, SpaceChars)

RStrip(s) == RStripChars(s, SpaceChars)

Strip(s) == RStrip(LStrip(s))

\* str.split(): the whitespace-delimited tokens, in order.
RECURSIVE SplitWs(_)
SplitWs(s) ==
    Bind(LStrip(s), LAMBDA t :
        IF t = "" THEN <<>>
        ELSE Bind(RunNotIn(t, 1, SpaceChars), LAMBDA n :
                <<SubSeq(t, 1, n)>> \o SplitWs(SubSeq(t, n + 1, Len(t)))))

\* str.splitlines()[0] of a non-empty text: everything before the first
\* line boundary.
FirstLine(s) == Bind(s, LAMBDA t : SubSeq(t, 1, RunNotIn(t, 1, LineBreakChars)))

\* " ".join(parts)
RECURSIVE JoinSpace(_)
JoinSpace(parts) ==
    Bind(parts, LAMBDA p :
        IF p = <<>> THEN ""
        ELSE IF Len(p) = 1 THEN p[1]
        ELSE p[1] \o " " \o JoinSpace(Tail(p)))

\* Python's ordering of strings: by code point, a proper prefix first.
StrLess(a, b) ==
    \E x \in {a}, y \in {b} :
        \E differ \in {{k \in 1..Len(x) : k > Len(y) \/ Ch(x, k) # Ch(y, k)}} :
            IF differ = {} THEN Len(x) < Len(y)
            ELSE \E k \in {CHOOSE i \in differ : \A j \in differ : i <= j} :
                    k <= Len(y) /\ Ord(Ch(x, k)) < Ord(Ch(y, k))

(***************************************************************************)
(* Module constants                                                        *)
(***************************************************************************)

FILE_KEYWORDS ==
    <<"repro", "reproduce", "reproduction", "debug", "test", "tests",
      "pytest", "unit", "minimal">>

THOUGHT_KEYWORDS ==
    <<"repro", "reproduce", "reproduction", "debug", "test case",
      "test to reproduce", "script to reproduce", "minimal example",
      "minimal repro", "unit test", "pytest">>

(***************************************************************************)
(* Text primitives                                                         *)
(***************************************************************************)

\* _action_header
_action_header(action_text) ==
    Bind(action_text, LAMBDA t :
        IF t = "" THEN ""
        ELSE IF Contains(t, "--file_text")
        THEN SubSeq(t, 1, FindFirst(t, "--file_text") - 1)
        ELSE FirstLine(t))

CreationMarkers ==
    <<"str_replace_editor create", "apply_patch", "cat <<", "cat >", "tee ",
      "printf ", "echo ", "touch ">>

\* _is_creation_action
_is_creation_action(action_text) ==
    \E lowered \in {Lower(action_text)} :
        \E k \in 1..Len(CreationMarkers) : Contains(lowered, CreationMarkers[k])

\* _has_keyword
_has_keyword(text, keywords) ==
    \E lowered \in {Lower(text)} :
        \E k \in 1..Len(keywords) : Contains(lowered, keywords[k])

\* Character class of the first pattern, [^ \\ s ' " backquote]: anything but
\* a backslash, the letter s, a quote, a double quote or a backquote.
AbsExcludedChars == {"\\", "s", "'", "\""}

\* Character class [A-Za-z0-9_.\\/-] of the second pattern.
DotHeadChars == AlnumChars \cup {"_", ".", "\\", "/", "-"}

\* Character class [A-Za-z0-9_.-] of the second pattern.
DotTailChars == AlnumChars \cup {"_", ".", "-"}

\* re.findall(r"(/[^\\s'\"`]+)", text) scanning from position i.
RECURSIVE FindAllAbs(_, _)
FindAllAbs(text, i) ==
    Bind2(text, i, LAMBDA t, p :
        Bind({q \in p..(Len(t) - 1) :
                Ch(t, q) = "/" /\ Ch(t, q + 1) \notin AbsExcludedChars},
             LAMBDA starts :
                IF starts = {} THEN <<>>
                ELSE Bind(CHOOSE q \in starts : \A r \in starts : q <= r, LAMBDA q :
                        Bind(RunNotIn(t, q + 1, AbsExcludedChars), LAMBDA n :
                            <<SubSeq(t, q, q + n)>> \o FindAllAbs(t, q + n + 1)))))

\* End position of the match of the second pattern anchored at i, 0 if none.
\* The head class is greedy and gives characters back until what follows is
\* a backslash, any character but a newline, and a non-empty tail run.
DotMatchEnd(text, i) ==
    Bind2(text, i, LAMBDA t, p :
        Bind({m \in 1..RunIn(t, p, DotHeadChars) :
                /\ p + m + 1 <= Len(t)
                /\ Ch(t, p + m) = "\\"
                /\ Ch(t, p + m + 1) # "\n"
                /\ RunIn(t, p + m + 2, DotTailChars) >= 1},
             LAMBDA good :
                IF good = {} THEN 0
                ELSE Bind(CHOOSE x \in good : \A y \in good : y <= x, LAMBDA m :
                        p + m + 1 + RunIn(t, p + m + 2, DotTailChars))))

\* re.findall(r"([A-Za-z0-9_.\\/-]+\\.[A-Za-z0-9_.-]+)", text) from position i.
RECURSIVE FindAllDot(_, _)
FindAllDot(text, i) ==
    Bind2(text, i, LAMBDA t, p :
        Bind({q \in p..Len(t) : DotMatchEnd(t, q) > 0}, LAMBDA starts :
            IF starts = {} THEN <<>>
            ELSE Bind(CHOOSE q \in starts : \A r \in starts : q <= r, LAMBDA q :
                    Bind(DotMatchEnd(t, q), LAMBDA e :
                        <<SubSeq(t, q, e)>> \o FindAllDot(t, e + 1)))))

\* The de-duplication loop of _extract_filenames.
RECURSIVE UniqueCleaned(_, _)
UniqueCleaned(candidates, unique) ==
    Bind2(candidates, unique, LAMBDA c, u :
        IF c = <<>> THEN u
        ELSE Bind(StripChars(Head(c), {"'", "\""}), LAMBDA cleaned :
                IF \E k \in 1..Len(u) : u[k] = cleaned
                THEN UniqueCleaned(Tail(c), u)
                ELSE UniqueCleaned(Tail(c), Append(u, cleaned))))

\* _extract_filenames
_extract_filenames(text) ==
    Bind(text, LAMBDA t : UniqueCleaned(FindAllAbs(t, 1) \o FindAllDot(t, 1), <<>>))

ShellVerbs == <<"find", "grep", "rg", "fd", "ls", "cd", "cat", "tree", "ag", "pwd">>

\* \b with the underscore taken for a separator.
WordBoundaryAlnum(s, i) ==
    LET before == i > 1 /\ IsAlnum(Ch(s, i - 1))
        after == i <= Len(s) /\ IsAlnum(Ch(s, i))
    IN  before # after

\* \b at the gap before position i (1..Len+1): exactly one side is a word
\* character.
WordBoundary(s, i) ==
    LET before == i > 1 /\ IsWordChar(Ch(s, i - 1))
        after == i <= Len(s) /\ IsWordChar(Ch(s, i))
    IN  before # after

\* The verbs searched as plain substrings, without \b.
shell_markers_substring(s) ==
    \E k \in 1..Len(ShellVerbs) : Contains(s, ShellVerbs[k])

\* shell_markers.search(s): \b(find|grep|rg|fd|ls|cd|cat|tree|ag|pwd)\b
shell_markers_search(s) ==
    \E t \in {s} : \E i \in 1..Len(t) : \E k \in 1..Len(ShellVerbs) :
        /\ WordBoundary(t, i)
        /\ MatchAt(t, ShellVerbs[k], i)
        /\ WordBoundary(t, i + Len(ShellVerbs[k]))

(***************************************************************************)
(* JSON values, as json.loads builds them                                  *)
(***************************************************************************)

Str(s) == [t |-> "str", s |-> s]
Num(n) == [t |-> "num", n |-> n]
Bool(b) == [t |-> "bool", b |-> b]
Null == [t |-> "null"]
List(e) == [t |-> "list", e |-> e]
\* A dict keeps its items in insertion order: a sequence of <<key, value>>.
Dict(items) == [t |-> "dict", items |-> items]

IsList(v) == v.t = "list"
IsDict(v) == v.t = "dict"

\* key in d
HasKey(d, key) == \E items \in {d.items} : \E k \in 1..Len(items) : items[k][1] = key

\* d[key]
Get(d, key) ==
    Bind(d.items, LAMBDA items :
        items[CHOOSE k \in 1..Len(items) : items[k][1] = key][2])

\* d.get(key)
DictGet(d, key) == Bind(d, LAMBDA x : IF HasKey(x, key) THEN Get(x, key) ELSE Null)

\* bool(v)
Truthy(v) ==
    \E x \in {v} :
        CASE x.t = "str" -> x.s # ""
          [] x.t = "num" -> x.n # 0
          [] x.t = "bool" -> x.b
          [] x.t = "null" -> FALSE
          [] x.t = "list" -> x.e # <<>>
          [] x.t = "dict" -> x.items # <<>>

\* a or b
PyOr(a, b) == Bind(a, LAMBDA x : IF Truthy(x) THEN x ELSE b)

Digits == <<"0", "1", "2", "3", "4", "5", "6", "7", "8", "9">>

\* str(n) of a non-negative integer
RECURSIVE IntStr(_)
IntStr(n) ==
    Bind(n, LAMBDA x :
        IF x < 10 THEN Digits[x + 1] ELSE IntStr(x \div 10) \o Digits[(x % 10) + 1])

\* repr(s) of a str: single quotes unless s has a quote and no double quote.
ReprQuote(s) ==
    Bind(s, LAMBDA t : IF Contains(t, "'") /\ ~Contains(t, "\"") THEN "\"" ELSE "'")

ReprCh(c, quote) ==
    Bind(c, LAMBDA x :
        IF x = "\\" THEN "\\\\"
        ELSE IF x = quote THEN "\\" \o quote
        ELSE IF x = "\n" THEN "\\n"
        ELSE IF x = "\t" THEN "\\t"
        ELSE IF x = "\r" THEN "\\r"
        ELSE IF x = "\f" THEN "\\x0c"
        ELSE x)

RECURSIVE ReprBody(_, _)
ReprBody(s, quote) ==
    Bind(s, LAMBDA t :
        IF t = "" THEN ""
        ELSE IF Len(t) = 1 THEN ReprCh(t, quote)
        ELSE Bind(Len(t) \div 2, LAMBDA h :
                ReprBody(SubSeq(t, 1, h), quote) \o ReprBody(SubSeq(t, h + 1, Len(t)), quote)))

ReprStr(s) ==
    Bind2(s, ReprQuote(s), LAMBDA t, q : q \o ReprBody(t, q) \o q)

\* repr(v), and ", ".join of the reprs of list elements / dict items.
RECURSIVE PyRepr(_)
RECURSIVE ReprElems(_)
RECURSIVE ReprItems(_)
PyRepr(v) ==
    Bind(v, LAMBDA x :
        CASE x.t = "str" -> ReprStr(x.s)
          [] x.t = "num" -> IntStr(x.n)
          [] x.t = "bool" -> IF x.b THEN "True" ELSE "False"
          [] x.t = "null" -> "None"
          [] x.t = "list" -> "[" \o ReprElems(x.e) \o "]"
          [] x.t = "dict" -> "{" \o ReprItems(x.items) \o "}")

ReprElems(e) ==
    Bind(e, LAMBDA x :
        IF x = <<>> THEN ""
        ELSE IF Len(x) = 1 THEN PyRepr(x[1])
        ELSE PyRepr(x[1]) \o ", " \o ReprElems(Tail(x)))

ReprItems(items) ==
    Bind(items, LAMBDA x :
        IF x = <<>> THEN ""
        ELSE Bind(ReprStr(x[1][1]) \o ": " \o PyRepr(x[1][2]), LAMBDA one :
                IF Len(x) = 1 THEN one
                ELSE one \o ", " \o ReprItems(Tail(x))))

\* str(v)
PyStr(v) == Bind(v, LAMBDA x : IF x.t = "str" THEN x.s ELSE PyRepr(x))

(***************************************************************************)
(* Outcomes of a call: a returned value or a raised exception              *)
(***************************************************************************)

Return(v) == [exc |-> "none", msg |-> "", arg |-> 0, value |-> v]
Raise(kind, msg, arg) == [exc |-> kind, msg |-> msg, arg |-> arg, value |-> <<>>]
Returned(r) == r.exc = "none"

(***************************************************************************)
(* Trajectory files and load_trajectory                                    *)
(*                                                                         *)
(* A file is its sequence of physical lines, as str.splitlines cuts them.  *)
(* A line is the sequence of its lexical tokens and the kind of its        *)
(* terminator.  A token is a run of JSON whitespace (space, tab), a run of *)
(* whitespace that str.strip removes and JSON rejects (U+001F, U+00A0,     *)
(* ...), a complete JSON value written inside the line, one of the         *)
(* structural characters [ ] { } , : of a document that goes on over       *)
(* several lines, or text that is no JSON token.  A terminator is a line   *)
(* feed ("nl", JSON whitespace), another line boundary of str.splitlines   *)
(* ("xnl": form feed, vertical tab, U+001C..U+001E, U+0085, U+2028,        *)
(* U+2029, which JSON rejects), or the end of the file ("eof").  A line    *)
(* boundary inside a string literal is outside the model.                  *)
(***************************************************************************)

Tok(k, v) == [k |-> k, v |-> v]
Value(v) == Tok("value", v)
Junk == Tok("junk", Null)
Ws == Tok("ws", Null)
XWs == Tok("xws", Null)
\* One of the structural characters [ ] { } , :
Mark(c) == Tok(c, Null)

Line(toks, end) == [toks |-> toks, end |-> end]
BlankLine == Line(<<>>, "nl")
JsonLine(v) == Line(<<Value(v)>>, "nl")
BadLine == Line(<<Junk>>, "nl")

\* str.isspace on the characters of a token.
IsSpaceTok(t) == t.k \in {"ws", "xws"}

\* line.strip() on the tokens of a line.
StripToks(toks) ==
    Bind(toks, LAMBDA t :
        Bind({i \in 1..Len(t) : ~IsSpaceTok(t[i])}, LAMBDA keep :
            IF keep = {} THEN <<>>
            ELSE SubSeq(t, CHOOSE i \in keep : \A j \in keep : i <= j,
                           CHOOSE i \in keep : \A j \in keep : j <= i)))

\* The result of a parse: the value read and the position after it.
ParseOk(v, next) == [ok |-> TRUE, v |-> v, next |-> next]
ParseFail == [ok |-> FALSE, v |-> Null, next |-> 0]

\* dict[key] = v while an object is read: a repeated key keeps its first
\* place and takes the last value.
DictPut(items, key, v) ==
    Bind(items, LAMBDA it :
        Bind({i \in 1..Len(it) : it[i][1] = key}, LAMBDA at :
            IF at = {} THEN Append(it, <<key, v>>)
            ELSE [it EXCEPT ![CHOOSE i \in at : TRUE] = <<key, v>>]))

\* The JSON grammar over tokens without whitespace: the value that starts
\* at position i, the rest of an array whose next element starts at i, and
\* the rest of an object whose next member starts at i.
RECURSIVE ParseValue(_, _)
RECURSIVE ParseElems(_, _, _)
RECURSIVE ParseMembers(_, _, _)
ParseValue(toks, pos) ==
    Bind2(toks, pos, LAMBDA t, i :
        IF i > Len(t) THEN ParseFail
        ELSE IF t[i].k = "value" THEN ParseOk(t[i].v, i + 1)
        ELSE IF t[i].k = "["
        THEN IF i < Len(t) /\ t[i + 1].k = "]" THEN ParseOk(List(<<>>), i + 2)
             ELSE ParseElems(t, i + 1, <<>>)
        ELSE IF t[i].k = "{"
        THEN IF i < Len(t) /\ t[i + 1].k = "}" THEN ParseOk(Dict(<<>>), i + 2)
             ELSE ParseMembers(t, i + 1, <<>>)
        ELSE ParseFail)

ParseElems(toks, pos, acc) ==
    Bind2(toks, ParseValue(toks, pos), LAMBDA t, r :
        IF ~r.ok \/ r.next > Len(t) THEN ParseFail
        ELSE IF t[r.next].k = ","
        THEN ParseElems(t, r.next + 1, Append(acc, r.v))
        ELSE IF t[r.next].k = "]"
        THEN ParseOk(List(Append(acc, r.v)), r.next + 1)
        ELSE ParseFail)

ParseMembers(toks, pos, acc) ==
    Bind2(toks, pos, LAMBDA t, i :
        IF i + 1 > Len(t) \/ t[i].k # "value" \/ t[i].v.t # "str" \/ t[i + 1].k # ":"
        THEN ParseFail
        ELSE Bind(ParseValue(t, i + 2), LAMBDA r :
                IF ~r.ok \/ r.next > Len(t) THEN ParseFail
                ELSE IF t[r.next].k = ","
                THEN ParseMembers(t, r.next + 1, DictPut(acc, t[i].v.s, r.v))
                ELSE IF t[r.next].k = "}"
                THEN ParseOk(Dict(DictPut(acc, t[i].v.s, r.v)), r.next + 1)
                ELSE ParseFail))

\* json.loads(text) on the tokens of text: JSON whitespace is skipped, any
\* other whitespace and any text that is no token is a JSONDecodeError, and
\* so is anything after the first value.
json_loads(toks) ==
    Bind(toks, LAMBDA t :
        IF \E i \in 1..Len(t) : t[i].k \in {"xws", "junk"} THEN ParseFail
        ELSE Bind(SelectSeq(t, LAMBDA x : x.k # "ws"), LAMBDA s :
                Bind(ParseValue(s, 1), LAMBDA r :
                    IF r.ok /\ r.next = Len(s) + 1 THEN r ELSE ParseFail)))

\* The token a line terminator is inside the text of the whole file.
EndToks(end) ==
    IF end = "nl" THEN <<Ws>> ELSE IF end = "xnl" THEN <<XWs>> ELSE <<>>

\* traj_path.read_text(): the tokens of the whole file.
RECURSIVE ReadText(_)
ReadText(file) ==
    IF file = <<>> THEN <<>>
    ELSE file[1].toks \o EndToks(file[1].end) \o ReadText(Tail(file))

\* json.loads(traj_path.read_text()) does not raise.
WholeFileParses(file) == json_loads(ReadText(file)).ok

\* ParseLines numbering only the lines it parsed: the error names the ordinal
\* of the failing line among the non-blank lines.
RECURSIVE ParseLinesCountingParsed(_, _, _)
ParseLinesCountingParsed(file, lineno, steps) ==
    IF lineno > Len(file)
    THEN IF steps = <<>>
         THEN Raise("ValueError", "No JSON objects found", 0)
         ELSE Return(List(steps))
    ELSE Bind(StripToks(file[lineno].toks), LAMBDA stripped :
            IF stripped = <<>>
            THEN ParseLinesCountingParsed(file, lineno + 1, steps)
            ELSE Bind(json_loads(stripped), LAMBDA entry :
                    IF ~entry.ok
                    THEN Raise("ValueError", "Failed to parse JSONL line", Len(steps) + 1)
                    ELSE ParseLinesCountingParsed(file, lineno + 1,
                                                  Append(steps, entry.v))))

\* The line-by-line loop of the except branch, from physical line lineno on,
\* with the entries parsed so far.
RECURSIVE ParseLines(_, _, _)
ParseLines(file, lineno, steps) ==
    IF lineno > Len(file)
    THEN IF steps = <<>>
         THEN Raise("ValueError", "No JSON objects found", 0)
         ELSE Return(List(steps))
    ELSE Bind(StripToks(file[lineno].toks), LAMBDA stripped :
            IF stripped = <<>>
            THEN ParseLines(file, lineno + 1, steps)
            ELSE Bind(json_loads(stripped), LAMBDA entry :
                    IF ~entry.ok
                    THEN Raise("ValueError", "Failed to parse JSONL line", lineno)
                    ELSE ParseLines(file, lineno + 1, Append(steps, entry.v))))

\* The try/except at the top of load_trajectory: the value bound to raw.
ParseRaw(file) ==
    Bind(file, LAMBDA f :
        Bind(json_loads(ReadText(f)), LAMBDA doc :
            IF doc.ok THEN Return(doc.v) ELSE ParseLines(f, 1, <<>>)))

\* next((v for v in raw.values() if isinstance(v, list) and v), None)
FirstListValue(raw) ==
    Bind(raw.items, LAMBDA items :
        Bind({k \in 1..Len(items) : IsList(items[k][2]) /\ Truthy(items[k][2])},
             LAMBDA hits :
                IF hits = {} THEN Null
                ELSE items[CHOOSE k \in hits : \A j \in hits : k <= j][2]))

\* The envelope dispatch of load_trajectory: the list bound to steps.
SelectSteps(raw) ==
    Bind(raw, LAMBDA x :
        IF IsDict(x)
        THEN IF HasKey(x, "trajectory") /\ IsList(Get(x, "trajectory"))
             THEN Return(Get(x, "trajectory").e)
             ELSE IF HasKey(x, "steps") /\ IsList(Get(x, "steps"))
             THEN Return(Get(x, "steps").e)
             ELSE Bind(FirstListValue(x), LAMBDA list_value :
                     IF list_value.t = "null"
                     THEN Raise("ValueError", "Unexpected trajectory format", 0)
                     ELSE Return(list_value.e))
        ELSE IF IsList(x) THEN Return(x.e)
        ELSE Raise("ValueError", "Unsupported trajectory data", 0))

\* The validation loop of load_trajectory; idx is 0-based as in the message.
Normalize(steps) ==
    Bind(steps, LAMBDA s :
        Bind({i \in 1..Len(s) : ~IsDict(s[i])}, LAMBDA bad :
            IF bad = {} THEN Return(s)
            ELSE Raise("ValueError", "Step is not an object",
                       (CHOOSE i \in bad : \A j \in bad : i <= j) - 1)))

\* load_trajectory
load_trajectory(file) ==
    Bind(ParseRaw(file), LAMBDA raw :
        IF ~Returned(raw) THEN raw
        ELSE Bind(SelectSteps(raw.value), LAMBDA steps :
                IF ~Returned(steps) THEN steps ELSE Normalize(steps.value)))

(***************************************************************************)
(* Step accessors                                                          *)
(***************************************************************************)

\* The loop over ("tool", "tool_name", "name") / ("command", "args", "input"):
\* the first key present with a truthy value, "" if none.
RECURSIVE FirstTruthyKey(_, _)
FirstTruthyKey(step, keys) ==
    Bind2(step, keys, LAMBDA st, ks :
        IF ks = <<>> THEN ""
        ELSE IF HasKey(st, Head(ks)) /\ Truthy(Get(st, Head(ks)))
        THEN Head(ks)
        ELSE FirstTruthyKey(st, Tail(ks)))

\* _get_tool_name; header.split()[0] raises IndexError when the header is
\* non-empty but has no token.
_get_tool_name(step) ==
    Bind2(step, FirstTruthyKey(step, <<"tool", "tool_name", "name">>), LAMBDA st, key :
        IF key # "" THEN Return(PyStr(Get(st, key)))
        ELSE Bind(_action_header(
                    PyStr(PyOr(PyOr(DictGet(st, "action"), DictGet(st, "command")),
                               Str("")))),
                  LAMBDA header :
                    IF header = "" THEN Return("")
                    ELSE Bind(SplitWs(header), LAMBDA tokens :
                            IF tokens = <<>>
                            THEN Raise("IndexError", "list index out of range", 0)
                            ELSE Return(tokens[1]))))

\* _get_command_text
_get_command_text(step) ==
    Bind2(step, FirstTruthyKey(step, <<"command", "args", "input">>), LAMBDA st, key :
        IF key # "" THEN PyStr(Get(st, key))
        ELSE _action_header(PyStr(PyOr(DictGet(st, "action"), Str("")))))

\* _is_reproduction_step taking the filenames from the whole raw action text,
\* payload included, instead of from the header.
_is_reproduction_step_payload_filenames(step) ==
    \E st \in {step} :
    \E raw_action \in {PyStr(PyOr(PyOr(PyOr(DictGet(st, "action"), DictGet(st, "tool")),
                                     DictGet(st, "command")), Str("")))} :
    \E header \in {_action_header(raw_action)} :
        IF ~_is_creation_action(header) THEN FALSE
        ELSE \E filenames \in {_extract_filenames(raw_action)} :
             \E thought_text \in {PyStr(PyOr(DictGet(st, "thought"), Str("")))} :
                IF filenames # <<>> /\ _has_keyword(JoinSpace(filenames), FILE_KEYWORDS)
                THEN TRUE
                ELSE IF _has_keyword(header, FILE_KEYWORDS) THEN TRUE
                ELSE IF thought_text # "" /\ _has_keyword(thought_text, THOUGHT_KEYWORDS)
                THEN TRUE
                ELSE FALSE

\* _is_reproduction_step
_is_reproduction_step(step) ==
    \E st \in {step} :
    \E header \in {_action_header(
                     PyStr(PyOr(PyOr(PyOr(DictGet(st, "action"), DictGet(st, "tool")),
                                     DictGet(st, "command")), Str(""))))} :
        IF ~_is_creation_action(header) THEN FALSE
        ELSE \E filenames \in {_extract_filenames(header)} :
             \E thought_text \in {PyStr(PyOr(DictGet(st, "thought"), Str("")))} :
                IF filenames # <<>> /\ _has_keyword(JoinSpace(filenames), FILE_KEYWORDS)
                THEN TRUE
                ELSE IF _has_keyword(header, FILE_KEYWORDS) THEN TRUE
                ELSE IF thought_text # "" /\ _has_keyword(thought_text, THOUGHT_KEYWORDS)
                THEN TRUE
                ELSE FALSE

(***************************************************************************)
(* The file system and the audit logs                                      *)
(***************************************************************************)

\* The search roots, in the order find_instance_dir tries them.
Roots == <<"CLAUDE_DIR", "QWEN_DIR">>

LogPaths == {"LOG_FILE", "LOG_SEARCH_FILE", "LOG_TOOL_FILE"}

\* What a root holds under an instance id: nothing, a directory without a
\* trajectory file, or a directory with <instance_id>.traj.
Absent == [dir |-> FALSE, traj |-> FALSE, file |-> <<>>]
DirOnly == [dir |-> TRUE, traj |-> FALSE, file |-> <<>>]
WithTraj(file) == [dir |-> TRUE, traj |-> TRUE, file |-> file]

\* find_instance_dir: the first root with a directory for the id.
find_instance_dir(fsys, instance_id) ==
    Bind({k \in 1..Len(Roots) : fsys[Roots[k]][instance_id].dir}, LAMBDA hits :
        IF hits = {}
        THEN Raise("FileNotFoundError", "Could not find trajectory directory", 0)
        ELSE Return(Roots[CHOOSE k \in hits : \A j \in hits : k <= j]))

\* The first four statements of each classifier: resolve the directory,
\* check that the trajectory file exists, load it.
LoadInstance(fsys, instance_id) ==
    Bind2(fsys, find_instance_dir(fsys, instance_id), LAMBDA f, instance_dir :
        IF ~Returned(instance_dir) THEN instance_dir
        ELSE IF ~f[instance_dir.value][instance_id].traj
        THEN Raise("FileNotFoundError", "Trajectory file not found", 0)
        ELSE load_trajectory(f[instance_dir.value][instance_id].file))

\* What the log lets a write do: take the whole line, or take n more
\* characters and then fail (the device is full, the file is at its size
\* limit).  A log that cannot be opened takes none, as WriteLimit(0).
WriteOk == [ok |-> TRUE, n |-> 0]
WriteLimit(n) == [ok |-> FALSE, n |-> n]

\* The write of the line goes through.
Fits(line, io) == io.ok \/ io.n >= Len(line)

\* The text a write leaves at the end of the file: the whole line, or the
\* part of it that got out before the failure.
Written(line, io) ==
    Bind2(line, io, LAMBDA l, w : IF Fits(l, w) THEN l ELSE SubSeq(l, 1, w.n))

\* _append_log_line letting the exception of the write escape.
_append_log_line_uncaught(lg, log_path, instance_id, steps, io) ==
    Bind(instance_id \o ": " \o PyStr(steps) \o "\n", LAMBDA line :
        [logs |-> [lg EXCEPT ![log_path] = @ \o Written(line, io)],
         raised |-> ~Fits(line, io),
         warned |-> FALSE])

\* _append_log_line: the line is built with an f-string and appended to the
\* text of the log; any exception of the write is caught and turned into a
\* warning, and what the write put out before it failed stays in the file.
_append_log_line(lg, log_path, instance_id, steps, io) ==
    Bind(instance_id \o ": " \o PyStr(steps) \o "\n", LAMBDA line :
        [logs |-> [lg EXCEPT ![log_path] = @ \o Written(line, io)],
         raised |-> FALSE,
         warned |-> ~Fits(line, io)])

\* _append_log writing to the log of locate_search.
_append_log_wrong_file(lg, instance_id, steps, io) ==
    _append_log_line(lg, "LOG_SEARCH_FILE", instance_id, steps, io)

\* _append_log
_append_log(lg, instance_id, steps, io) ==
    _append_log_line(lg, "LOG_FILE", instance_id, steps, io)

\* A Python list of ints / dict of str to int, as tagged values.
IntList(seq) == Bind(seq, LAMBDA q : List([i \in 1..Len(q) |-> Num(q[i])]))
CountDict(pairs) ==
    Bind(pairs, LAMBDA p : Dict([i \in 1..Len(p) |-> <<p[i][1], Num(p[i][2])>>]))

\* sorted(set(matches)) for a list of ints
RECURSIVE SortedSet(_)
SortedSet(set) ==
    Bind(set, LAMBDA S :
        IF S = {} THEN <<>>
        ELSE Bind(CHOOSE x \in S : \A y \in S : x <= y, LAMBDA lo :
                <<lo>> \o SortedSet(S \ {lo})))

Range(seq) == Bind(seq, LAMBDA q : {q[i] : i \in 1..Len(q)})

(***************************************************************************)
(* The classifiers                                                         *)
(***************************************************************************)

\* The loop of locate_reproduction_code with enumerate(steps): 0-based.
RECURSIVE ReproMatchesZeroBased(_, _, _)
ReproMatchesZeroBased(steps, idx, matches) ==
    IF idx > Len(steps) THEN matches
    ELSE IF _is_reproduction_step(steps[idx])
    THEN ReproMatchesZeroBased(steps, idx + 1, Append(matches, idx - 1))
    ELSE ReproMatchesZeroBased(steps, idx + 1, matches)

\* The loop of locate_reproduction_code: enumerate(steps, start=1).
RECURSIVE ReproMatches(_, _, _)
ReproMatches(steps, idx, matches) ==
    IF idx > Len(steps) THEN matches
    ELSE IF _is_reproduction_step(steps[idx])
    THEN ReproMatches(steps, idx + 1, Append(matches, idx))
    ELSE ReproMatches(steps, idx + 1, matches)

\* What a call leaves behind: its outcome and the logs.
Done(out, lg, warned) == [out |-> out, logs |-> lg, warned |-> warned]

\* The last statements of each classifier: the log line, then the return.
LogAndReturn(w, result) ==
    Bind(w, LAMBDA x :
        IF x.raised THEN Done(Raise("OSError", "log write", 0), x.logs, x.warned)
        ELSE Done(Return(result), x.logs, x.warned))

\* locate_reproduction_code
locate_reproduction_code(fsys, lg, instance_id, io) ==
    Bind(LoadInstance(fsys, instance_id), LAMBDA steps :
        IF ~Returned(steps) THEN Done(steps, lg, FALSE)
        ELSE Bind(SortedSet(Range(ReproMatches(steps.value, 1, <<>>))),
                  LAMBDA sorted_matches :
                    LogAndReturn(_append_log(lg, instance_id, IntList(sorted_matches), io),
                                 sorted_matches)))

search_tool_names == {"find_file", "search_file", "search_dir"}

\* The body of the loop of locate_search for one step: whether idx is
\* appended, or the exception that leaves the loop.
SearchStep(step) ==
    Bind2(step, _get_tool_name(step), LAMBDA st, name :
        IF ~Returned(name) THEN name
        ELSE Bind2(Lower(name.value), Lower(_get_command_text(st)),
                   LAMBDA tool_name, command_lower :
                     IF tool_name \in search_tool_names THEN Return(TRUE)
                     ELSE IF tool_name = "str_replace_editor"
                             /\ Contains(command_lower, "view")
                     THEN Return(TRUE)
                     ELSE IF shell_markers_search(command_lower) THEN Return(TRUE)
                     ELSE Return(FALSE)))

\* The loop of locate_search: enumerate(steps, start=1).
RECURSIVE SearchMatches(_, _, _)
SearchMatches(steps, idx, matches) ==
    IF idx > Len(steps) THEN Return(matches)
    ELSE Bind(SearchStep(steps[idx]), LAMBDA hit :
            IF ~Returned(hit) THEN hit
            ELSE IF hit.value THEN SearchMatches(steps, idx + 1, Append(matches, idx))
            ELSE SearchMatches(steps, idx + 1, matches))

\* locate_search
locate_search(fsys, lg, instance_id, io) ==
    Bind(LoadInstance(fsys, instance_id), LAMBDA steps :
        IF ~Returned(steps) THEN Done(steps, lg, FALSE)
        ELSE Bind(SearchMatches(steps.value, 1, <<>>), LAMBDA matches :
                IF ~Returned(matches) THEN Done(matches, lg, FALSE)
                ELSE Bind(SortedSet(Range(matches.value)), LAMBDA unique_matches :
                        LogAndReturn(_append_log_line(lg, "LOG_SEARCH_FILE", instance_id,
                                                      IntList(unique_matches), io),
                                     unique_matches))))

\* counts[tool_name] = counts.get(tool_name, 0) + 1 on an insertion-ordered
\* dict, kept as a sequence of <<name, count>>.
Bump(counts, tool_name) ==
    Bind2(counts, tool_name, LAMBDA c, t :
        IF \E k \in 1..Len(c) : c[k][1] = t
        THEN [k \in 1..Len(c) |-> IF c[k][1] = t THEN <<t, c[k][2] + 1>> ELSE c[k]]
        ELSE Append(c, <<t, 1>>))

\* The loop of locate_tool_use.
RECURSIVE ToolCounts(_, _, _)
ToolCounts(steps, idx, counts) ==
    IF idx > Len(steps) THEN Return(counts)
    ELSE Bind(_get_tool_name(steps[idx]), LAMBDA name :
            IF ~Returned(name) THEN name
            ELSE Bind(Strip(name.value), LAMBDA tool_name :
                    IF tool_name = "" THEN ToolCounts(steps, idx + 1, counts)
                    ELSE ToolCounts(steps, idx + 1, Bump(counts, tool_name))))

\* The counts returned in insertion order, without sorted().
SortCountsUnsorted(counts) == counts

\* {k: counts[k] for k in sorted(counts)}
RECURSIVE SortCounts(_)
SortCounts(counts) ==
    Bind(counts, LAMBDA c :
        IF c = <<>> THEN <<>>
        ELSE Bind(CHOOSE k \in 1..Len(c) : \A j \in 1..Len(c) : ~StrLess(c[j][1], c[k][1]),
                  LAMBDA lo :
                    <<c[lo]>> \o
                    SortCounts([k \in 1..(Len(c) - 1) |->
                                   IF k < lo THEN c[k] ELSE c[k + 1]])))

\* locate_tool_use
locate_tool_use(fsys, lg, instance_id, io) ==
    Bind(LoadInstance(fsys, instance_id), LAMBDA steps :
        IF ~Returned(steps) THEN Done(steps, lg, FALSE)
        ELSE Bind(ToolCounts(steps.value, 1, <<>>), LAMBDA counts :
                IF ~Returned(counts) THEN Done(counts, lg, FALSE)
                ELSE Bind(SortCounts(counts.value), LAMBDA sorted_counts :
                        LogAndReturn(_append_log_line(lg, "LOG_TOOL_FILE", instance_id,
                                                      CountDict(sorted_counts), io),
                                     sorted_counts))))

(***************************************************************************)
(* Inputs of the model                                                     *)
(***************************************************************************)

\* Longest trajectory stored in a file.
MaxSteps == 2
\* Most lines the three audit logs hold together.
MaxLogLines == 3
\* Most characters a log at its limit still takes, and the longest
\* unfinished line followed in a log.
MaxPartial == 4
\* Most physical lines of a file given to the loader.
MaxLines == 3
\* Longest generated action / command text.
MaxTextLen == 3

InstanceIds == {"i1", "i2"}

Step1(k1, v1) == Dict(<<<<k1, Str(v1)>>>>)
Step2(k1, v1, k2, v2) == Dict(<<<<k1, Str(v1)>>, <<k2, Str(v2)>>>>)

StepCreate == Step1("action", "str_replace_editor create /tmp/test_repro.py")
StepEcho == Step2("action", "echo hello", "thought", "Let's write a minimal repro for this bug")
StepFindFile == Step1("tool", "find_file")
StepGrep == Step1("action", "grep -r TODO src/")
StepCategory == Step1("action", "category")
StepBash == Step2("tool", "bash", "command", "python run.py")
StepPadded == Step2("tool", " bash ", "command", "touch unit.py")
StepThought == Step1("thought", "I will debug this")
StepView == Step1("action", "str_replace_editor view /src/a.py")
StepBlank == Step1("action", " ")
StepFindMe == Step1("action", "python find_me.py")
StepFindDot == Step1("action", "python find.py")

\* All sequences over a set, up to a length.
RECURSIVE SeqsUpTo(_, _)
SeqsUpTo(S, n) ==
    IF n = 0 THEN {<<>>}
    ELSE LET shorter == SeqsUpTo(S, n - 1)
         IN  shorter \cup {Append(q, x) : q \in {r \in shorter : Len(r) = n - 1}, x \in S}

\* All texts over a set of characters, up to a length.
RECURSIVE TextsUpTo(_, _)
TextsUpTo(A, n) ==
    IF n = 0 THEN {""}
    ELSE LET shorter == TextsUpTo(A, n - 1)
         IN  shorter \cup {q \o c : q \in {r \in shorter : Len(r) = n - 1}, c \in A}

\* A trajectory written as one JSON list, and as one JSON object per line.
JsonListFile(steps) == <<JsonLine(List(steps))>>
JsonlFile(steps) == [i \in 1..Len(steps) |-> JsonLine(steps[i])]

EmptyLogs == [lp \in LogPaths |-> ""]
NoCall == [op |-> "none", instance_id |-> "", io |-> WriteOk, out |-> Return(<<>>),
           warned |-> FALSE]

\* What a log can let a write do.
WriteOutcomes == {WriteOk, WriteLimit(0), WriteLimit(MaxPartial)}

\* The logs as earlier runs on an instance since removed left them: one
\* line short of the most lines followed.
RECURSIVE Repeat(_, _)
Repeat(text, n) == IF n = 0 THEN "" ELSE text \o Repeat(text, n - 1)
PriorLogs ==
    [lp \in LogPaths |->
        IF lp = "LOG_FILE" THEN Repeat("i0: []\n", MaxLogLines - 1) ELSE ""]
Idle == [fn |-> "none", res |-> Return(<<>>)]

\* A file system whose only trajectory is file, for instance i1 under the
\* first root.
FsOf(file) ==
    [rt \in Range(Roots) |-> [id \in InstanceIds |->
        IF rt = "CLAUDE_DIR" /\ id = "i1" THEN WithTraj(file) ELSE Absent]]

MainSteps == {StepCreate, StepFindFile, StepBash, StepPadded}

MainFiles ==
    {JsonListFile(q) : q \in SeqsUpTo(MainSteps, MaxSteps)}
    \cup {JsonlFile(<<StepBash, StepThought, StepBash>>),
          <<JsonLine(Dict(<<<<"info", Num(1)>>, <<"trajectory", List(<<StepEcho, StepView>>)>>>>))>>,
          <<JsonLine(StepGrep), BlankLine, BadLine>>,
          JsonListFile(<<StepGrep, StepBlank>>),
          JsonListFile(<<StepCategory, StepFindMe, StepFindDot>>),
          <<JsonLine(StepGrep)>>}

\* One root layout per trajectory file, with the instance i1 under both
\* roots, and the layouts that differ in where the directory of i1 is.
\* The instance i2 has a directory without a trajectory file.
Layout(c1, q1) ==
    [rt \in Range(Roots) |-> [id \in InstanceIds |->
        IF rt = "CLAUDE_DIR" THEN (IF id = "i1" THEN c1 ELSE DirOnly)
        ELSE (IF id = "i1" THEN q1 ELSE Absent)]]

QwenFile == JsonListFile(<<StepView>>)

FsSet ==
    {Layout(WithTraj(f), WithTraj(QwenFile)) : f \in MainFiles}
    \cup {Layout(c1, q1) : c1 \in {Absent, DirOnly}, q1 \in {Absent, WithTraj(QwenFile)}}

(***************************************************************************)
(* State                                                                   *)
(***************************************************************************)

VARIABLES
    fs,      \* the two search roots: fs[root][instance_id]
    logs,    \* the text of the three audit logs
    call,    \* the last classifier call and its outcome
    input,   \* the argument of a directly applied function
    output   \* the function applied to input and its outcome

vars == <<fs, logs, call, input, output>>

\* The text after the last line feed of a log: its unfinished line.
OpenTail(text) ==
    Bind(text, LAMBDA t :
        Bind({i \in 1..Len(t) : Ch(t, i) = "\n"}, LAMBDA feeds :
            IF feeds = {} THEN t
            ELSE SubSeq(t, (CHOOSE i \in feeds : \A j \in feeds : j <= i) + 1, Len(t))))

\* The lines of a log, the unfinished one included.
LineCount(text) ==
    Bind(text, LAMBDA t :
        Cardinality({i \in 1..Len(t) : Ch(t, i) = "\n"})
        + (IF OpenTail(t) = "" THEN 0 ELSE 1))

TotalLogLines ==
    LineCount(logs["LOG_FILE"]) + LineCount(logs["LOG_SEARCH_FILE"])
    + LineCount(logs["LOG_TOOL_FILE"])

(***************************************************************************)
(* One run of main() on a file system, after the runs that left the logs   *)
(***************************************************************************)

Init ==
    /\ fs \in FsSet
    /\ logs = PriorLogs
    /\ call = NoCall
    /\ input = <<>>
    /\ output = Idle

Classify(op, fsys, lg, instance_id, io) ==
    CASE op = "locate_reproduction_code" -> locate_reproduction_code(fsys, lg, instance_id, io)
      [] op = "locate_search" -> locate_search(fsys, lg, instance_id, io)
      [] op = "locate_tool_use" -> locate_tool_use(fsys, lg, instance_id, io)

\* The audit log of a classifier.
OwnLog(op) ==
    CASE op = "locate_reproduction_code" -> "LOG_FILE"
      [] op = "locate_search" -> "LOG_SEARCH_FILE"
      [] op = "locate_tool_use" -> "LOG_TOOL_FILE"

\* A run is followed while its line, which finishes the unfinished line of
\* its log when there is one, leaves the logs with at most MaxLogLines lines,
\* and while no unfinished line grows beyond MaxPartial characters.
CallClassifier(op, instance_id, io) ==
    /\ TotalLogLines - LineCount(OpenTail(logs[OwnLog(op)])) < MaxLogLines
    /\ Len(OpenTail(logs[OwnLog(op)])) + io.n <= MaxPartial
    /\ \E r \in {Classify(op, fs, logs, instance_id, io)} :
          /\ logs' = r.logs
          /\ call' = [op |-> op, instance_id |-> instance_id, io |-> io,
                      out |-> r.out, warned |-> r.warned]
    /\ output' = Idle
    /\ UNCHANGED <<fs, input>>

LocateReproductionCode ==
    \E instance_id \in InstanceIds, io \in WriteOutcomes :
        CallClassifier("locate_reproduction_code", instance_id, io)

LocateSearch ==
    \E instance_id \in InstanceIds, io \in WriteOutcomes :
        CallClassifier("locate_search", instance_id, io)

LocateToolUse ==
    \E instance_id \in InstanceIds, io \in WriteOutcomes :
        CallClassifier("locate_tool_use", instance_id, io)

Next == LocateReproductionCode \/ LocateSearch \/ LocateToolUse

Spec == Init /\ [][Next]_vars

(***************************************************************************)
(* Runs of main() and of the inspection scripts over the same logs         *)
(***************************************************************************)

\* One classifier call a script made, with the logs as the call left them.
\* A script leaves behind its outcome, the logs, and the calls it made.
Made(op, instance_id, io, r) ==
    [call |-> [op |-> op, instance_id |-> instance_id, io |-> io,
               out |-> r.out, warned |-> r.warned],
     logs |-> r.logs]

\* load_instance_steps: the file is read without asking whether it exists.
load_instance_steps(fsys, instance_id) ==
    Bind2(fsys, find_instance_dir(fsys, instance_id), LAMBDA f, instance_dir :
        IF ~Returned(instance_dir) THEN instance_dir
        ELSE IF ~f[instance_dir.value][instance_id].traj
        THEN Raise("FileNotFoundError", "No such file or directory", 0)
        ELSE load_trajectory(f[instance_dir.value][instance_id].file))

\* spotcheck_instance: the steps are loaded, then the three classifiers run
\* one after the other, io[k] being what the log lets the k-th write do; the
\* first exception ends the script.  What follows only prints.
spotcheck_instance(fsys, lg, instance_id, io) ==
    Bind(load_instance_steps(fsys, instance_id), LAMBDA steps :
        IF ~Returned(steps) THEN [out |-> steps, logs |-> lg, calls |-> <<>>]
        ELSE Bind(locate_reproduction_code(fsys, lg, instance_id, io[1]), LAMBDA r1 :
            Bind(<<Made("locate_reproduction_code", instance_id, io[1], r1)>>, LAMBDA c1 :
            IF ~Returned(r1.out) THEN [out |-> r1.out, logs |-> r1.logs, calls |-> c1]
            ELSE Bind(locate_search(fsys, r1.logs, instance_id, io[2]), LAMBDA r2 :
                Bind(Append(c1, Made("locate_search", instance_id, io[2], r2)), LAMBDA c2 :
                IF ~Returned(r2.out) THEN [out |-> r2.out, logs |-> r2.logs, calls |-> c2]
                ELSE Bind(locate_tool_use(fsys, r2.logs, instance_id, io[3]), LAMBDA r3 :
                    Bind(Append(c2, Made("locate_tool_use", instance_id, io[3], r3)),
                         LAMBDA c3 :
                    IF ~Returned(r3.out) THEN [out |-> r3.out, logs |-> r3.logs, calls |-> c3]
                    ELSE [out |-> Return(Null), logs |-> r3.logs, calls |-> c3])))))))

\* main of test_code_single.py: the same four calls in the same order, and
\* then only printing.
main(fsys, lg, instance_id, io) == spotcheck_instance(fsys, lg, instance_id, io)

Drivers == {"main", "spotcheck_instance"}

\* A JSONL trajectory every classifier reports on, one whose third line is
\* malformed, and a directory without a trajectory file; i2 has a
\* directory in the last only.
LogFsSet ==
    {FsOf(JsonlFile(<<StepBash, StepFindFile, StepBash>>)),
     FsOf(<<JsonLine(StepGrep), BlankLine, BadLine>>),
     Layout(DirOnly, WithTraj(QwenFile))}

InitLog ==
    /\ fs \in LogFsSet
    /\ logs = EmptyLogs
    /\ call = NoCall
    /\ input = <<>>
    /\ output = Idle

\* One run of an inspection script.  It is followed while the logs have
\* room for its three lines.
InspectInstance ==
    /\ TotalLogLines + 3 <= MaxLogLines
    /\ \E driver \in Drivers, instance_id \in InstanceIds,
          io \in [1..3 -> WriteOutcomes] :
          /\ Len(OpenTail(logs["LOG_FILE"])) + io[1].n <= MaxPartial
          /\ Len(OpenTail(logs["LOG_SEARCH_FILE"])) + io[2].n <= MaxPartial
          /\ Len(OpenTail(logs["LOG_TOOL_FILE"])) + io[3].n <= MaxPartial
          /\ \E r \in {IF driver = "main" THEN main(fs, logs, instance_id, io)
                       ELSE spotcheck_instance(fs, logs, instance_id, io)} :
                /\ logs' = r.logs
                /\ call' = IF r.calls = <<>> THEN call
                           ELSE r.calls[Len(r.calls)].call
                /\ output' = [fn |-> driver, res |-> r.out, calls |-> r.calls]
    /\ UNCHANGED <<fs, input>>

NextLog == Next \/ InspectInstance

SpecLog == InitLog /\ [][NextLog]_vars

(***************************************************************************)
(* load_trajectory applied to a file                                       *)
(***************************************************************************)

DocValues ==
    {List(<<>>), List(<<StepGrep>>), List(<<StepGrep, StepBash>>), List(<<Num(1)>>),
     Dict(<<<<"trajectory", List(<<>>)>>>>),
     Dict(<<<<"steps", List(<<>>)>>, <<"log", List(<<StepBash>>)>>>>),
     Dict(<<<<"trajectory", Num(5)>>, <<"steps", List(<<StepGrep>>)>>>>),
     Dict(<<<<"x", List(<<>>)>>, <<"y", List(<<StepBash>>)>>>>),
     StepGrep, StepBash, Num(5)}

\* Lines of every kind: blank ones, one that only str.strip takes for
\* blank, malformed ones, one value per line under each terminator, and the
\* lines of a list and of an envelope written over several lines.
LineSet ==
    {BlankLine, BadLine, Line(<<XWs>>, "nl")}
    \cup {JsonLine(v) : v \in DocValues}
    \cup {Line(<<Value(StepGrep)>>, "xnl"),
          Line(<<Ws, Value(List(<<StepBash>>)), XWs>>, "eof"),
          Line(<<Mark("[")>>, "nl"),
          Line(<<Value(StepCreate), Mark(",")>>, "nl"),
          Line(<<Mark("]")>>, "nl"),
          Line(<<Mark("{"), Value(Str("steps")), Mark(":"), Mark("[")>>, "nl"),
          Line(<<Mark("]"), Mark("}")>>, "eof")}

\* The text of a file ends at its last line: only that line can lack a
\* terminator, and then it is not empty.
WellFormedFile(file) ==
    \A i \in 1..Len(file) :
        file[i].end = "eof" => (i = Len(file) /\ file[i].toks # <<>>)

FileSet == {file \in SeqsUpTo(LineSet, MaxLines) : WellFormedFile(file)}

InitLoad ==
    /\ fs = FsOf(<<>>)
    /\ logs = EmptyLogs
    /\ call = NoCall
    /\ input \in FileSet
    /\ output = Idle

LoadTrajectory ==
    /\ output = Idle
    /\ output' = [fn |-> "load_trajectory", res |-> load_trajectory(input)]
    /\ UNCHANGED <<fs, logs, call, input>>

NextLoad == LoadTrajectory

SpecLoad == InitLoad /\ [][NextLoad]_vars

(***************************************************************************)
(* The same trajectory stored as a JSON list and as JSONL                  *)
(***************************************************************************)

RoundTripSteps == {StepCreate, StepEcho, StepFindFile, StepGrep, StepBash,
                   StepThought, StepView, StepCategory}

\* The order in which the classifiers are run on a file.
ClassifierOrder == <<"locate_reproduction_code", "locate_search", "locate_tool_use">>

\* The trajectory in input stored twice under the first root: as one JSON
\* list for i1, as JSONL for i2.
InitRoundTrip ==
    /\ input \in SeqsUpTo(RoundTripSteps, MaxSteps) \ {<<>>}
    /\ fs = [rt \in Range(Roots) |-> [id \in InstanceIds |->
                IF rt # "CLAUDE_DIR" THEN Absent
                ELSE IF id = "i1" THEN WithTraj(JsonListFile(input))
                ELSE WithTraj(JsonlFile(input))]]
    /\ logs = EmptyLogs
    /\ call = NoCall
    /\ output = Idle

\* Both files are loaded.
RoundTripLoad ==
    /\ output = Idle
    /\ output' =
          [fn |-> "round_trip",
           res |-> Return(<<>>),
           loaded |-> [id \in InstanceIds |->
                         load_trajectory(fs["CLAUDE_DIR"][id].file)],
           on |-> [id \in InstanceIds |-> <<>>]]
    /\ UNCHANGED <<fs, logs, call, input>>

\* The next classifier is run, on the list file until the three have run
\* on it and then on the JSONL file; a call that returns appends its line to
\* its log as the write allows.
RoundTripClassify ==
    /\ output.fn = "round_trip"
    /\ \E instance_id \in InstanceIds, io \in WriteOutcomes :
          /\ Len(output.on[instance_id]) < Len(ClassifierOrder)
          /\ instance_id = "i2" => Len(output.on["i1"]) = Len(ClassifierOrder)
          /\ \E op \in {ClassifierOrder[Len(output.on[instance_id]) + 1]} :
             \E r \in {Classify(op, fs, logs, instance_id, io)} :
                /\ logs' = r.logs
                /\ call' = [op |-> op, instance_id |-> instance_id, io |-> io,
                            out |-> r.out, warned |-> r.warned]
                /\ output' = [output EXCEPT !.on[instance_id] = Append(@, r.out)]
    /\ UNCHANGED <<fs, input>>

NextRoundTrip == RoundTripLoad \/ RoundTripClassify

SpecRoundTrip == InitRoundTrip /\ [][NextRoundTrip]_vars

(***************************************************************************)
(* The step accessors and the search decision applied to one step          *)
(***************************************************************************)

TextAlphabet == {"l", "s", "L", "_", " "}

ToolFields == {<<>>} \cup {<<<<"tool", v>>>> :
                  v \in {Null, Str(""), Str(" "), Str("bash"), Str("Find_File"),
                         Str("str_replace_editor")}}

StepSet ==
    {StepCreate, StepEcho, StepFindFile, StepGrep, StepCategory, StepBash, StepPadded,
     StepThought, StepView, StepBlank, StepFindMe, StepFindDot,
     Step2("tool", "str_replace_editor", "command", "view /src/a.py"),
     Step2("tool", "bash", "args", "cat notes.txt"),
     Step2("name", "search_dir", "input", "TODO"),
     Step1("action", "\nls"),
     Dict(<<<<"tool_name", Num(7)>>, <<"input", Bool(TRUE)>>>>)}
    \cup {Dict(tf \o <<<<key, Str(text)>>>>) :
            tf \in ToolFields, key \in {"action", "command"},
            text \in TextsUpTo(TextAlphabet, MaxTextLen)}

InitStep ==
    /\ fs = FsOf(<<>>)
    /\ logs = EmptyLogs
    /\ call = NoCall
    /\ input \in StepSet
    /\ output = Idle

GetToolName ==
    /\ output' = [fn |-> "_get_tool_name", res |-> _get_tool_name(input)]
    /\ UNCHANGED <<fs, logs, call, input>>

GetCommandText ==
    /\ output' = [fn |-> "_get_command_text", res |-> Return(_get_command_text(input))]
    /\ UNCHANGED <<fs, logs, call, input>>

\* locate_search's loop on the one-step trajectory <<input>>.
SearchOneStep ==
    /\ output' = [fn |-> "locate_search", res |-> SearchMatches(<<input>>, 1, <<>>)]
    /\ UNCHANGED <<fs, logs, call, input>>

\* locate_tool_use's loop on the one-step trajectory <<input>>.
CountOneStep ==
    /\ output' = [fn |-> "locate_tool_use", res |-> ToolCounts(<<input>>, 1, <<>>)]
    /\ UNCHANGED <<fs, logs, call, input>>

NextStep == GetToolName \/ GetCommandText \/ SearchOneStep \/ CountOneStep

SpecStep == InitStep /\ [][NextStep]_vars

(***************************************************************************)
(* _extract_filenames applied to a text                                    *)
(***************************************************************************)

PathAlphabet == {"/", "a", "s", " ", "'"}

PathTexts ==
    TextsUpTo(PathAlphabet, MaxTextLen)
    \cup {"str_replace_editor create /tmp/test_repro.py",
          "cat > /a b",
          "touch /a.py /a.py",
          "echo \"/x/y\" '/x/y'",
          "tee o\\.py /b o\\.py"}

InitText ==
    /\ fs = FsOf(<<>>)
    /\ logs = EmptyLogs
    /\ call = NoCall
    /\ input \in PathTexts
    /\ output = Idle

\* _extract_filenames(input); abs and dot are what the two findall passes
\* put into candidates.
ExtractFilenames ==
    /\ output = Idle
    /\ output' = [fn |-> "_extract_filenames",
                  res |-> Return(_extract_filenames(input)),
                  abs |-> FindAllAbs(input, 1),
                  dot |-> FindAllDot(input, 1)]
    /\ UNCHANGED <<fs, logs, call, input>>

NextText == ExtractFilenames

SpecText == InitText /\ [][NextText]_vars

(***************************************************************************)
(* _is_reproduction_step applied to one step                               *)
(***************************************************************************)

\* Pieces of action texts: paths, keywords, separators, payload markers.
ReproFragments ==
    {"/tmp/", "Test", "debug", " ", "'", " --file_text ", "\n", "a\\.py"}

RECURSIVE Concat(_)
Concat(parts) == IF parts = <<>> THEN "" ELSE Head(parts) \o Concat(Tail(parts))

ReproTexts == {Concat(q) : q \in SeqsUpTo(ReproFragments, MaxTextLen)}

ReproVerbs == {"touch ", "Cat > ", "ls "}

ThoughtFields ==
    {<<>>, <<<<"thought", Str("Unit Test for the bug")>>>>,
     <<<<"thought", Str("looking around")>>>>}

ReproStepSet ==
    {StepCreate, StepEcho, StepFindFile, StepGrep, StepBash, StepPadded, StepThought,
     StepView, StepBlank,
     Step2("tool", "apply_patch", "command", "touch test.py"),
     Step2("action", "", "command", "printf x > /tmp/debug.log"),
     Step2("action", "echo hello", "thought", ""),
     Dict(<<<<"action", Null>>, <<"tool", Str("tee /tmp/out")>>, <<"thought", Num(0)>>>>),
     Dict(<<<<"command", Str("echo 1")>>, <<"thought", List(<<Str("pytest")>>)>>>>)}
    \cup {Dict(<<<<"action", Str(verb \o text)>>>> \o th) :
            verb \in ReproVerbs, text \in ReproTexts, th \in ThoughtFields}

InitRepro ==
    /\ fs = FsOf(<<>>)
    /\ logs = EmptyLogs
    /\ call = NoCall
    /\ input \in ReproStepSet
    /\ output = Idle

IsReproductionStep ==
    /\ output = Idle
    /\ output' = [fn |-> "_is_reproduction_step",
                  res |-> Return(_is_reproduction_step(input))]
    /\ UNCHANGED <<fs, logs, call, input>>

NextRepro == IsReproductionStep

SpecRepro == InitRepro /\ [][NextRepro]_vars

(***************************************************************************)
(* The batch sweep of test_code_all.py                                     *)
(***************************************************************************)

\* roots = [("claude", CLAUDE_DIR), ("qwen", QWEN_DIR)]
SweepRoots == <<<<"claude", "CLAUDE_DIR">>, <<"qwen", "QWEN_DIR">>>>

\* sorted(root.iterdir()): the names under a root in ascending order.
RECURSIVE SortedNames(_)
SortedNames(names) ==
    Bind(names, LAMBDA S :
        IF S = {} THEN <<>>
        ELSE Bind(CHOOSE x \in S : \A y \in S : ~StrLess(y, x), LAMBDA lo :
                <<lo>> \o SortedNames(S \ {lo})))

\* The visits one root contributes: its directories that hold a trajectory
\* file, in name order.
RootVisits(fsys, label, root) ==
    Bind(SortedNames({id \in InstanceIds : fsys[root][id].dir /\ fsys[root][id].traj}),
         LAMBDA ids :
            [k \in 1..Len(ids) |-> [label |-> label, instance_id |-> ids[k], root |-> root]])

\* iter_instances: the (label, instance_id, traj_path) triples in the order
\* they are yielded; traj_path is the file of instance_id under root.
iter_instances(fsys) ==
    Bind(fsys, LAMBDA f :
        RootVisits(f, SweepRoots[1][1], SweepRoots[1][2])
        \o RootVisits(f, SweepRoots[2][1], SweepRoots[2][2]))

\* format_summary_line
format_summary_line(instance_id, label, reproduction_steps, search_steps, tool_counts) ==
    instance_id \o " (" \o label \o ") -> "
    \o "repro_steps=" \o IntStr(Len(reproduction_steps)) \o ", "
    \o "search_steps=" \o IntStr(Len(search_steps)) \o ", "
    \o "tools=" \o PyStr(CountDict(tool_counts))

\* collect_warnings; len(search_steps) / total_steps > 0.8 in integers.
collect_warnings(reproduction_steps, search_steps, tool_counts, total_steps) ==
    Bind2(reproduction_steps, total_steps, LAMBDA rs, total :
        (IF tool_counts = <<>> THEN <<"WARNING: zero tool calls reported">> ELSE <<>>)
        \o (IF total # 0 /\ 5 * Len(search_steps) > 4 * total
            THEN <<"WARNING: search steps high (" \o IntStr(Len(search_steps)) \o "/"
                   \o IntStr(total) \o ")">>
            ELSE <<>>)
        \o (IF total = 0 THEN <<>>
            ELSE Bind(SelectSeq(rs, LAMBDA idx : idx < 1 \/ idx > total),
                      LAMBDA out_of_range :
                        IF out_of_range = <<>> THEN <<>>
                        ELSE <<"WARNING: reproduction indices out of range for "
                               \o IntStr(total) \o " steps ("
                               \o PyStr(IntList(out_of_range)) \o ")">>)))

\* The except branch of analyze_instance.  The text of the exception is kept
\* up to its fixed part (paths and line numbers are left out).
ErrorLine(instance_id, label, exc) ==
    instance_id \o " (" \o label \o ") -> ERROR: " \o exc.msg

\* What analyze_instance leaves behind: the summary line, the warnings, the
\* audit logs as the classifier calls left them, and whether it failed.
Analysis(summary, warnings, lg, failed) ==
    [summary |-> summary, warnings |-> warnings, logs |-> lg, failed |-> failed]

\* analyze_instance: the steps are loaded from traj_path, the three results
\* come from the classifiers called with instance_id alone.  io[k] is how
\* the log write of the k-th classifier ends.
analyze_instance(fsys, lg, label, instance_id, root, io) ==
    Bind(load_trajectory(fsys[root][instance_id].file), LAMBDA steps :
        IF ~Returned(steps)
        THEN Analysis(ErrorLine(instance_id, label, steps), <<>>, lg, TRUE)
        ELSE Bind(locate_reproduction_code(fsys, lg, instance_id, io[1]), LAMBDA r1 :
            IF ~Returned(r1.out)
            THEN Analysis(ErrorLine(instance_id, label, r1.out), <<>>, r1.logs, TRUE)
            ELSE Bind(locate_search(fsys, r1.logs, instance_id, io[2]), LAMBDA r2 :
                IF ~Returned(r2.out)
                THEN Analysis(ErrorLine(instance_id, label, r2.out), <<>>, r2.logs, TRUE)
                ELSE Bind(locate_tool_use(fsys, r2.logs, instance_id, io[3]), LAMBDA r3 :
                    IF ~Returned(r3.out)
                    THEN Analysis(ErrorLine(instance_id, label, r3.out), <<>>, r3.logs, TRUE)
                    ELSE Analysis(
                            format_summary_line(instance_id, label, r1.out.value,
                                                r2.out.value, r3.out.value),
                            collect_warnings(r1.out.value, r2.out.value, r3.out.value,
                                             Len(steps.value)),
                            r3.logs, FALSE)))))

\* The lines one visit adds to report_lines.
ReportLines(a) == <<a.summary>> \o [k \in 1..Len(a.warnings) |-> "  " \o a.warnings[k]]

\* "\n".join(report_lines) + "\n"
RECURSIVE JoinLines(_)
JoinLines(lines) ==
    IF lines = <<>> THEN ""
    ELSE IF Len(lines) = 1 THEN lines[1]
    ELSE lines[1] \o "\n" \o JoinLines(Tail(lines))

\* The trajectory files of the sweep, one per root and instance.
SweepFile(root, id) ==
    CASE root = "CLAUDE_DIR" /\ id = "i1" -> JsonListFile(<<StepCreate, StepFindFile, StepBash>>)
      [] root = "CLAUDE_DIR" /\ id = "i2" -> <<JsonLine(StepGrep), BlankLine, BadLine>>
      [] root = "QWEN_DIR" /\ id = "i1" -> JsonListFile(<<StepView>>)
      [] root = "QWEN_DIR" /\ id = "i2" -> JsonListFile(<<StepGrep, StepThought>>)

SweepFsSet ==
    {[rt \in Range(Roots) |-> [id \in InstanceIds |->
        IF kind[rt][id] = "traj" THEN WithTraj(SweepFile(rt, id))
        ELSE IF kind[rt][id] = "dir" THEN DirOnly ELSE Absent]] :
     kind \in [Range(Roots) -> [InstanceIds -> {"none", "dir", "traj"}]]}

\* main() of test_code_all.py before the loop: input is what iter_instances
\* has still to yield.
InitSweep ==
    /\ fs \in SweepFsSet
    /\ logs = EmptyLogs
    /\ call = NoCall
    /\ input = iter_instances(fs)
    /\ output = [fn |-> "main", res |-> Return(<<>>), pc |-> "loop", report_lines |-> <<>>,
                 visit |-> <<>>, report_file |-> <<>>]

\* One iteration of the loop of main().
AnalyzeNext ==
    /\ output.fn = "main"
    /\ output.pc = "loop"
    /\ input # <<>>
    /\ \E io \in [1..3 -> WriteOutcomes] :
       \E v \in {Head(input)} :
       \E a \in {analyze_instance(fs, logs, v.label, v.instance_id, v.root, io)} :
          /\ logs' = a.logs
          /\ output' = [output EXCEPT
                          !.report_lines = @ \o ReportLines(a),
                          !.visit = <<[label |-> v.label, instance_id |-> v.instance_id,
                                       root |-> v.root, summary |-> a.summary,
                                       warnings |-> a.warnings, failed |-> a.failed]>>]
    /\ input' = Tail(input)
    /\ UNCHANGED <<fs, call>>

\* The end of main(): the report is written when it has lines.
WriteReport ==
    /\ output.fn = "main"
    /\ output.pc = "loop"
    /\ input = <<>>
    /\ output' = [output EXCEPT
                    !.pc = "done",
                    !.report_file = IF output.report_lines = <<>> THEN <<>>
                                    ELSE <<JoinLines(output.report_lines) \o "\n">>]
    /\ UNCHANGED <<fs, logs, call, input>>

NextSweep == AnalyzeNext \/ WriteReport

SpecSweep == InitSweep /\ [][NextSweep]_vars

(***************************************************************************)
(* Properties                                                              *)
(***************************************************************************)

Loaded == output.fn = "load_trajectory"

\* C1: whenever load_trajectory returns without raising, the returned
\* sequence of steps is non-empty and every element is a mapping.
C1_LoadedNonEmpty ==
    (Loaded /\ Returned(output.res)) =>
        /\ output.res.value # <<>>
        /\ \A i \in 1..Len(output.res.value) : IsDict(output.res.value[i])

\* C2: a trajectory of N >= 1 step mappings stored as one JSON list and
\* stored as N newline-delimited JSON objects loads to the same result, and
\* the three classifiers return (or fail) identically on both files.
C2_RoundTrip ==
    output.fn = "round_trip" =>
        /\ output.loaded["i1"] = output.loaded["i2"]
        /\ \A k \in 1..Len(output.on["i2"]) : output.on["i1"][k] = output.on["i2"][k]

\* C3: tool-name and command-text resolution never raise, whatever the
\* step holds, so the loops of locate_search and locate_tool_use never fail
\* on a loaded step.
C3_ResolutionNeverRaises ==
    output.fn \in {"_get_tool_name", "_get_command_text", "locate_search",
                   "locate_tool_use"} => Returned(output.res)

\* The steps the last classifier call loaded.
CallSteps == LoadInstance(fs, call.instance_id).value

IndexOps == {"locate_reproduction_code", "locate_search"}

StepMatches(op, step) ==
    IF op = "locate_reproduction_code" THEN _is_reproduction_step(step)
    ELSE SearchStep(step).value

\* C4: the list returned by locate_reproduction_code or locate_search is
\* strictly increasing, every index lies in [1, N], and index i is in it
\* exactly when the i-th loaded step matches.
C4_IndicesInRange ==
    (call.op \in IndexOps /\ Returned(call.out)) =>
        LET r == call.out.value
        IN  /\ \A k \in 1..Len(r) : r[k] >= 1 /\ r[k] <= Len(CallSteps)
            /\ \A k \in 1..(Len(r) - 1) : r[k] < r[k + 1]
            /\ \A i \in 1..Len(CallSteps) :
                  (\E k \in 1..Len(r) : r[k] = i) <=> StepMatches(call.op, CallSteps[i])

\* A call returned two indices, the second for the second step.
C4_Witness ==
    /\ call.op \in IndexOps
    /\ Returned(call.out)
    /\ Len(call.out.value) = 2
    /\ call.out.value[2] = 2

\* The resolved, trimmed tool name of the i-th loaded step.
ResolvedName(i) == Strip(_get_tool_name(CallSteps[i]).value)

RECURSIVE SumCounts(_)
SumCounts(pairs) == IF pairs = <<>> THEN 0 ELSE pairs[1][2] + SumCounts(Tail(pairs))

\* C5: locate_tool_use returns, in ascending key order, one entry per
\* non-empty trimmed tool name, whose count is the number of steps with that
\* name; steps with an empty name are counted nowhere, so the counts sum to
\* the number of steps with a resolvable name.
C5_ToolCounts ==
    (call.op = "locate_tool_use" /\ Returned(call.out)) =>
        LET r == call.out.value
            named == {i \in 1..Len(CallSteps) : ResolvedName(i) # ""}
        IN  /\ \A k \in 1..Len(r) :
                  /\ r[k][1] # ""
                  /\ r[k][1] = Strip(r[k][1])
                  /\ r[k][2] = Cardinality({i \in named : ResolvedName(i) = r[k][1]})
                  /\ r[k][2] >= 1
            /\ \A k \in 1..(Len(r) - 1) : StrLess(r[k][1], r[k + 1][1])
            /\ \A i \in named : \E k \in 1..Len(r) : r[k][1] = ResolvedName(i)
            /\ SumCounts(r) = Cardinality(named)
            /\ SumCounts(r) <= Len(CallSteps)

\* Steps 1 and 3 use bash and step 2 has no tool name: exactly {'bash': 2}.
C5_Witness ==
    /\ call.op = "locate_tool_use"
    /\ call.out = Return(<<<<"bash", 2>>>>)
    /\ Len(CallSteps) = 3
    /\ ResolvedName(2) = ""

\* The line <instance_id>: <result> of a returned call.
AuditLine(c) ==
    c.instance_id \o ": " \o
    (IF c.op = "locate_tool_use" THEN PyStr(CountDict(c.out.value))
     ELSE PyStr(IntList(c.out.value)))

\* What C6 states of one call, from the logs before it to the logs after.
C6StepAsStated(c, before, after) ==
    IF Returned(c.out)
    THEN after = [before EXCEPT ![OwnLog(c.op)] = @ \o AuditLine(c) \o "\n"]
    ELSE after = before

\* The same with the write that fails: only a part of the text gets out.
C6Step(c, before, after) ==
    IF Returned(c.out)
    THEN \E line \in {AuditLine(c) \o "\n"} :
         \E n \in (IF c.io.ok THEN {Len(line)} ELSE 0..Len(line)) :
             after = [before EXCEPT ![OwnLog(c.op)] = @ \o SubSeq(line, 1, n)]
    ELSE after = before

\* The logs before the k-th call of a script.
LogsBefore(calls, k, before) == IF k = 1 THEN before ELSE calls[k - 1].logs

\* C6 as stated: a failing call leaves the three logs unchanged; every
\* successful call appends exactly one line <instance_id>: <result> to its
\* own log and leaves the other logs and the earlier lines unchanged.
C6_EveryReturnAppends ==
    [][IF output'.fn \in Drivers
       THEN /\ \A k \in 1..Len(output'.calls) :
                  C6StepAsStated(output'.calls[k].call,
                                 LogsBefore(output'.calls, k, logs),
                                 output'.calls[k].logs)
            /\ logs' = LogsBefore(output'.calls, Len(output'.calls) + 1, logs)
       ELSE C6StepAsStated(call', logs, logs')]_vars

\* C6: a failing call leaves the three logs unchanged; a successful call
\* appends exactly the text <instance_id>: <result> and a line feed to the
\* end of its own log when the write succeeds, and only a part of that text
\* (none of it, or its first characters) when the write fails; the other
\* logs and the earlier text are unchanged.  This holds of a call made by
\* main() and of each call an inspection script makes.
C6_ReturnAppendsWhenWritable ==
    [][IF output'.fn \in Drivers
       THEN /\ \A k \in 1..Len(output'.calls) :
                  C6Step(output'.calls[k].call,
                         LogsBefore(output'.calls, k, logs),
                         output'.calls[k].logs)
            /\ logs' = LogsBefore(output'.calls, Len(output'.calls) + 1, logs)
       ELSE C6Step(call', logs, logs')]_vars

\* A returned call of locate_tool_use wrote its line after the four
\* characters an earlier call left when its write failed, and a script
\* had put one line into each of the other logs.
C6_Witness ==
    /\ call.op = "locate_tool_use"
    /\ Returned(call.out)
    /\ call.io.ok
    /\ logs["LOG_TOOL_FILE"] = "i1: i1: {'bash': 2, 'find_file': 1}\n"
    /\ logs["LOG_FILE"] = "i1: []\n"
    /\ logs["LOG_SEARCH_FILE"] = "i1: [2]\n"

\* The classifier calls the last step made.
CallsMade ==
    IF output.fn \in Drivers
    THEN {output.calls[k].call : k \in 1..Len(output.calls)}
    ELSE {call} \ {NoCall}

\* C7: when the append to the audit log fails, the classifier still
\* returns exactly what it returns when the append succeeds.
C7_LogFailureSwallowed ==
    \A c \in CallsMade :
        ~c.io.ok =>
            /\ c.out.exc # "OSError"
            /\ c.out = Classify(c.op, fs, EmptyLogs, c.instance_id, WriteOk).out

\* A call whose write failed part-way returned a non-empty result and only
\* warned.
C7_Witness ==
    /\ call.op = "locate_search"
    /\ ~call.io.ok
    /\ call.warned
    /\ Returned(call.out)
    /\ call.out.value # <<>>
    /\ logs["LOG_SEARCH_FILE"] = "i1: "

\* The line is blank to the loop, and the line is valid JSON on its own.
LineBlank(line) == StripToks(line.toks) = <<>>
LineParses(line) == json_loads(StripToks(line.toks)).ok

BadLines(file) == {i \in 1..Len(file) : ~LineBlank(file[i]) /\ ~LineParses(file[i])}
ValueLines(file) == {i \in 1..Len(file) : ~LineBlank(file[i]) /\ LineParses(file[i])}

\* The file is not one valid JSON document.
NotOneDocument(file) == ~WholeFileParses(file)

\* C8: for a file that is not one JSON document, the first non-blank line
\* that is not JSON makes load_trajectory fail naming its physical line
\* number, whatever precedes or follows it, and a file without any parsed
\* line fails with 'No JSON objects found'.
C8_BadLineNamed ==
    (Loaded /\ NotOneDocument(input)) =>
        /\ BadLines(input) # {} =>
              /\ ~Returned(output.res)
              /\ output.res.exc = "ValueError"
              /\ output.res.msg = "Failed to parse JSONL line"
              /\ output.res.arg \in BadLines(input)
              /\ \A i \in BadLines(input) : output.res.arg <= i
        /\ (BadLines(input) = {} /\ ValueLines(input) = {}) =>
              output.res = Raise("ValueError", "No JSON objects found", 0)

\* A blank line, a valid line, then the malformed line 3: the error names 3.
C8_Witness ==
    /\ Loaded
    /\ Len(input) = 3
    /\ NotOneDocument(input)
    /\ LineBlank(input[1])
    /\ LineParses(input[2])
    /\ 3 \in BadLines(input)
    /\ output.res = Raise("ValueError", "Failed to parse JSONL line", 3)

\* w stands at position i of s as a whole word.
WholeWordAt(s, w, i) ==
    /\ MatchAt(s, w, i)
    /\ (i = 1 \/ ~IsWordChar(Ch(s, i - 1)))
    /\ (i + Len(w) > Len(s) \/ ~IsWordChar(Ch(s, i + Len(w))))

HasWholeWordVerb(s) ==
    \E k \in 1..Len(ShellVerbs) : \E i \in 1..Len(s) : WholeWordAt(s, ShellVerbs[k], i)

Searched == output.fn = "locate_search" /\ Returned(output.res)
Reported == output.res.value = <<1>>

\* C9: a step matched neither by the search-tool rule nor by the
\* editor-view rule is reported by locate_search exactly when its
\* lower-cased command text holds one of the verbs as a whole word; action
\* category is not reported, action grep -r TODO src/ is.
C9_ShellVerbWholeWord ==
    Searched =>
        LET tool_name == Lower(_get_tool_name(input).value)
            command_lower == Lower(_get_command_text(input))
            ruleA == tool_name \in {"find_file", "search_file", "search_dir"}
            ruleC == tool_name = "str_replace_editor" /\ Contains(command_lower, "view")
        IN  /\ (~ruleA /\ ~ruleC) => (Reported <=> HasWholeWordVerb(command_lower))
            /\ input = StepCategory => ~Reported
            /\ input = StepGrep => Reported

\* The action category was searched and not reported.
C9_Witness ==
    /\ Searched
    /\ input = StepCategory
    /\ output.res.value = <<>>

\* C10 as stated: a step of an unrelated tool whose command text holds the
\* file name find_me.py is reported as a search step.
C10_FindMeReported == (Searched /\ input = StepFindMe) => Reported

\* C10: the shell-verb rule reads the whole command text, arguments of
\* unrelated tools included, but only whole words: the file name find.py
\* makes the step a search step, find_me.py does not.
C10_FindDotReported ==
    Searched =>
        /\ input = StepFindDot => Reported
        /\ input = StepFindMe => ~Reported

\* The step running python find.py was searched and reported.
C10_Witness ==
    /\ Searched
    /\ input = StepFindDot
    /\ Reported

Extracted == output.fn = "_extract_filenames"

\* Whitespace and quote characters, the delimiters of a path token.
TokenDelimiters == SpaceChars \cup {"'", "\""}

\* c stands in text and runs on to the next delimiter or to the end.
RunsToDelimiter(text, c) ==
    \E i \in 1..Len(text) :
        /\ MatchAt(text, c, i)
        /\ (i + Len(c) > Len(text) \/ Ch(text, i + Len(c)) \in TokenDelimiters)

\* Position of the first candidate that cleans to name.
FirstSeen(candidates, name) ==
    CHOOSE k \in 1..Len(candidates) :
        /\ StripChars(candidates[k], {"'", "\""}) = name
        /\ \A j \in 1..(k - 1) : StripChars(candidates[j], {"'", "\""}) # name

\* C11: every candidate of the absolute-path pass of _extract_filenames
\* starts with a slash, holds no whitespace and no quote, and is the token
\* up to the next whitespace or quote (/tmp/test_repro.py for the action
\* str_replace_editor create /tmp/test_repro.py); the returned list has no
\* duplicates and keeps the first-seen order of the candidates.
C11_AbsoluteTokens ==
    Extracted =>
        LET abs == output.abs
            candidates == output.abs \o output.dot
            unique == output.res.value
        IN  /\ \A k \in 1..Len(abs) :
                  /\ Ch(abs[k], 1) = "/"
                  /\ \A i \in 1..Len(abs[k]) : Ch(abs[k], i) \notin TokenDelimiters
                  /\ RunsToDelimiter(input, abs[k])
            /\ input = "str_replace_editor create /tmp/test_repro.py"
                  => abs = <<"/tmp/test_repro.py">>
            /\ \A i, j \in 1..Len(unique) : i # j => unique[i] # unique[j]
            /\ \A i, j \in 1..Len(unique) :
                  i < j => FirstSeen(candidates, unique[i]) < FirstSeen(candidates, unique[j])

Decided == output.fn = "_is_reproduction_step"

\* The first non-empty of the fields action, tool, command, as text.
RawActionText(step) ==
    LET key == FirstTruthyKey(step, <<"action", "tool", "command">>)
    IN  IF key = "" THEN "" ELSE PyStr(Get(step, key))

\* The thought of a step, as text.
ThoughtText(step) ==
    IF HasKey(step, "thought") /\ Truthy(Get(step, "thought"))
    THEN PyStr(Get(step, "thought")) ELSE ""

\* C12: _is_reproduction_step is true exactly when the header of the raw
\* action text holds a creation marker and either the header holds a
\* FILE_KEYWORDS term or the thought holds a THOUGHT_KEYWORDS term; the
\* filename check changes nothing, every extracted filename being a piece
\* of the header and no FILE_KEYWORDS term holding a space; a header
\* without a creation marker is never reported.
C12_ReproductionRule ==
    Decided =>
        LET header == _action_header(RawActionText(input))
            filenames == _extract_filenames(header)
        IN  /\ output.res.value <=>
                  /\ _is_creation_action(header)
                  /\ \/ _has_keyword(header, FILE_KEYWORDS)
                     \/ _has_keyword(ThoughtText(input), THOUGHT_KEYWORDS)
            /\ \A k \in 1..Len(filenames) : Contains(header, filenames[k])
            /\ \A k \in 1..Len(FILE_KEYWORDS) : ~Contains(FILE_KEYWORDS[k], " ")
            /\ ~_is_creation_action(header) => ~output.res.value

\* A creating step whose header has no keyword although its payload names
\* /tmp/debug, and which has no thought, was rejected.
C12_Witness ==
    /\ Decided
    /\ input = Step1("action", "touch  --file_text /tmp/debug")
    /\ output.res.value = FALSE

Swept == output.fn = "main" /\ output.visit # <<>>

\* A file system in which instance_id resolves to the given file alone.
FsAt(instance_id, file) ==
    [rt \in Range(Roots) |-> [id \in InstanceIds |->
        IF rt = "CLAUDE_DIR" /\ id = instance_id THEN WithTraj(file) ELSE Absent]]

\* The summary lines of the report: the lines that are not indented warnings.
SummaryLines(report) == SelectSeq(report, LAMBDA line : SubSeq(line, 1, 2) # "  ")

\* C13: for every visit of the sweep, whatever the two roots hold, the
\* reproduction indices, search indices and tool counts of the summary line
\* are those of the trajectory at traj_path, the file whose step count the
\* warnings use; a failing visit yields an ERROR line and every remaining
\* instance is still analysed, one summary line per visit.
C13_SummaryFromVisitedFile ==
    Swept =>
        LET v == output.visit[1]
            file == fs[v.root][v.instance_id].file
            steps == load_trajectory(file)
            at == FsAt(v.instance_id, file)
            r1 == locate_reproduction_code(at, EmptyLogs, v.instance_id, WriteOk).out
            r2 == locate_search(at, EmptyLogs, v.instance_id, WriteOk).out
            r3 == locate_tool_use(at, EmptyLogs, v.instance_id, WriteOk).out
        IN  /\ IF Returned(steps) /\ Returned(r1) /\ Returned(r2) /\ Returned(r3)
               THEN /\ ~v.failed
                    /\ v.summary = format_summary_line(v.instance_id, v.label, r1.value,
                                                       r2.value, r3.value)
                    /\ v.warnings = collect_warnings(r1.value, r2.value, r3.value,
                                                     Len(steps.value))
               ELSE /\ v.failed
                    /\ v.summary = ErrorLine(v.instance_id, v.label,
                                             IF ~Returned(steps) THEN steps
                                             ELSE IF ~Returned(r1) THEN r1
                                             ELSE IF ~Returned(r2) THEN r2 ELSE r3)
            /\ Len(SummaryLines(output.report_lines)) + Len(input) = Len(iter_instances(fs))
            /\ output.pc = "done" => input = <<>>

====
